---------------------------- MODULE Spec2Model ----------------------------
(***************************************************************************)
(* A model of lib/fileutils.c (util-linux): xmkstemp / mkstemp_cloexec,    *)
(* dup_fd_cloexec, close_all_fds, mkdir_p and ul_copy_file.                *)
(*                                                                         *)
(* The five operations share no state but the process itself (descriptor   *)
(* table, errno, umask, file system).  Each has its own specification      *)
(* (SpecTemp, SpecDup, SpecSweep, SpecMkdir, SpecCopy) in which one call   *)
(* runs, one system call per step, on every input of a bounded set and     *)
(* with every outcome the system call can have.                            *)
(***************************************************************************)
EXTENDS Integers, Sequences, FiniteSets

(***************************************************************************)
(* Bounds of the model.                                                    *)
(***************************************************************************)
\* descriptor numbers are 0 .. MaxFd
MaxFd == 4
\* length of the exclusion array handed to close_all_fds
MaxExclude == 2
\* close_all_fds is called up to MaxCalls times in succession
MaxCalls == 2
\* length of the path handed to mkdir_p
MaxPathLen == 5
\* number of bytes of the source file of ul_copy_file
MaxLen == 3
\* sizeof(buf) in copy_file_simple, 8 * 1024 in the source, scaled down
BufSize == 2
\* the cap of one drain sendfile call, 1024*1024 in the source, scaled down
SendfileChunk == 2

(***************************************************************************)
(* Platform constants (<fcntl.h>, Linux values).                           *)
(***************************************************************************)
FD_CLOEXEC == 1
\* 02000000
O_CLOEXEC == 524288
\* 077
MASK_077 == 63
\* <errno.h>
EINVAL == 22
ENOMEM == 12

NULL == "NULL"

VARIABLES
    \* ---- the process
    fdtab,          \* descriptor table: open fd -> [file, flags]
    errno,
    umask,          \* file-creation mask
    files,          \* temporary-file paths that exist
    nofile,         \* RLIMIT_NOFILE soft limit (getdtablesize())
    \* ---- xmkstemp / mkstemp_cloexec
    HAVE_MKOSTEMP,  \* build capability
    x_pc, x_dir, x_TMPDIR, x_prefix,
    localtmp, tmpname, old_mode, x_fd, x_ret,
    m_fd, old_flags, m_errno_save, m_ret,
    umask0, fdtab0, files0,     \* history: the state before the call
    \* ---- dup_fd_cloexec
    HAVE_F_DUPFD_CLOEXEC,       \* build capability: F_DUPFD_CLOEXEC is defined
    d_pc, oldfd, lowfd, d_fd, d_flags, d_errno_save, d_ret,
    \* ---- close_all_fds
    proc_mounted,   \* _PATH_PROC_FDDIR exists
    s_pc, exclude, dir, s_fd, tbsz,
    close_calls,    \* history: the descriptors the loops of this call passed to close()
    calls,          \* history: the calls of close_all_fds that have returned
    after1,         \* history: the open descriptors when the first call returned
    dir_hist,       \* history: the descriptor behind dir in this call, whether its
                    \* entry was read, and how often it was closed
    \* ---- mkdir_p
    fs,             \* the file system: [dir, reg], the directories and the other files
    mk_pc, path, mk_dir, mk_p, mk_rc, mk_ret,
    mkdir_calls,    \* history: the arguments of the calls of mkdir(), in order
    mkdir_errs,     \* history: the outcomes of these calls, "0" or the errno
    fs00,           \* history: the file system before the call
    \* ---- ul_copy_file / copy_file_simple
    HAVE_SENDFILE, HAVE_EXPLICIT_BZERO,     \* build capabilities
    src,            \* the bytes of the file behind descriptor from
    from_pos,       \* the file offset of descriptor from
    is_reg,         \* S_ISREG(st.st_mode)
    dst,            \* the bytes written to descriptor to, in order
    c_pc, left, buf, nr, off, c_ret,
    from_pos0,      \* history: the offset of from before the call
    read_failed, write_failed, sendfile_failed,     \* history: a call failed
    short_write,    \* history: a write wrote less than it was asked to
    sent,           \* history: the bytes moved by sendfile
    simple          \* history: copy_file_simple was called

procVars == <<fdtab, errno, umask, files, nofile>>
histVars == <<umask0, fdtab0, files0>>
tempVars == <<HAVE_MKOSTEMP, x_pc, x_dir, x_TMPDIR, x_prefix, localtmp, tmpname,
              old_mode, x_fd, x_ret, m_fd, old_flags, m_errno_save, m_ret>>
dupVars == <<HAVE_F_DUPFD_CLOEXEC, d_pc, oldfd, lowfd, d_fd, d_flags,
             d_errno_save, d_ret>>
sweepVars == <<proc_mounted, s_pc, exclude, dir, s_fd, tbsz, close_calls, calls,
               after1, dir_hist>>
mkdirVars == <<fs, mk_pc, path, mk_dir, mk_p, mk_rc, mk_ret, mkdir_calls,
               mkdir_errs, fs00>>
copyVars == <<HAVE_SENDFILE, HAVE_EXPLICIT_BZERO, src, from_pos, is_reg, dst,
              c_pc, left, buf, nr, off, c_ret, from_pos0, read_failed,
              write_failed, sendfile_failed, short_write, sent, simple>>
vars == <<procVars, histVars, tempVars, dupVars, sweepVars, mkdirVars, copyVars>>
\* what the actions of one operation leave alone
notTemp == <<histVars, dupVars, sweepVars, mkdirVars, copyVars>>
notDup == <<histVars, tempVars, sweepVars, mkdirVars, copyVars>>
notSweep == <<histVars, tempVars, dupVars, mkdirVars, copyVars>>
notMkdir == <<umask, files, nofile, fdtab, histVars, tempVars, dupVars, sweepVars,
              copyVars>>
notCopy == <<umask, files, nofile, fdtab, histVars, tempVars, dupVars, sweepVars,
             mkdirVars>>

(***************************************************************************)
(* Integers as bit strings.                                                *)
(***************************************************************************)
RECURSIVE BitAnd(_, _)
BitAnd(a, b) ==
    IF a = 0 \/ b = 0 THEN 0
    ELSE (a % 2) * (b % 2) + 2 * BitAnd(a \div 2, b \div 2)

RECURSIVE BitOr(_, _)
BitOr(a, b) ==
    IF a = 0 THEN b
    ELSE IF b = 0 THEN a
    ELSE (IF a % 2 = 1 \/ b % 2 = 1 THEN 1 ELSE 0) + 2 * BitOr(a \div 2, b \div 2)

Min(S) == CHOOSE x \in S : \A y \in S : x <= y

Range(s) == {s[i] : i \in 1..Len(s)}

(***************************************************************************)
(* The kernel's descriptor table.                                          *)
(***************************************************************************)
OpenFds == DOMAIN fdtab

\* the descriptor numbers >= low that open(2), dup(2), fcntl(F_DUPFD) may hand out
FreeFds(low) == {f \in low..(nofile - 1) : f <= MaxFd /\ f \notin OpenFds}

\* the table with descriptor fd installed
Install(tab, fd, file, flags) ==
    [f \in (DOMAIN tab) \cup {fd} |->
        IF f = fd THEN [file |-> file, flags |-> flags] ELSE tab[f]]

\* close(2): the table without fd; closing a descriptor that is not open
\* fails with EBADF and changes nothing
Close(tab, fd) == [f \in (DOMAIN tab) \ {fd} |-> tab[f]]

\* fcntl(fd, F_SETFD, arg): the kernel keeps FD_CLOEXEC and ignores every other bit
SetFd(tab, fd, arg) ==
    [tab EXCEPT ![fd].flags = BitAnd(arg, FD_CLOEXEC)]

IsCloexec(tab, fd) ==
    fd \in DOMAIN tab /\ BitAnd(tab[fd].flags, FD_CLOEXEC) = FD_CLOEXEC

(***************************************************************************)
(* xmkstemp and mkstemp_cloexec.                                           *)
(***************************************************************************)
PATH_TMP == "/tmp/"
Dirs == {"/run", "/var/tmp", PATH_TMP}
Suffixes == {"aaaaaa", "bbbbbb"}
TempPaths == {<<d, "test", s>> : d \in Dirs, s \in Suffixes}

\* the descriptor tables a call of xmkstemp starts from
StdTables ==
    {[f \in S |-> [file |-> <<"/dev", "tty", "">>, flags |-> 0]] :
        S \in {{0, 1, 2}, {0, 2}, 0..MaxFd}}

StartTemp ==
    /\ fdtab \in StdTables
    /\ errno = "0"
    /\ umask \in {0, 18, MASK_077}
    /\ files \in SUBSET TempPaths
    /\ nofile = MaxFd + 1
    /\ HAVE_MKOSTEMP \in BOOLEAN
    /\ x_pc = "asprintf"
    /\ x_dir \in {NULL, "/run"}
    /\ x_TMPDIR \in {NULL, "/var/tmp"}
    /\ x_prefix = "test"
    /\ localtmp = "uninit"
    \* the caller's pointer before the call: NULL, or never set
    /\ tmpname \in {NULL, "uninit"}
    /\ old_mode = -1
    /\ x_fd = -1
    /\ x_ret = -1
    /\ m_fd = -1
    /\ old_flags = -1
    /\ m_errno_save = "uninit"
    /\ m_ret = -1
    /\ umask0 = umask
    /\ fdtab0 = fdtab
    /\ files0 = files

\* lines 63-69: the directory is chosen and the template built
xmkstemp_asprintf ==
    /\ x_pc = "asprintf"
    /\ LET tmpenv0 == IF x_dir # NULL THEN x_dir ELSE x_TMPDIR
           tmpenv == IF tmpenv0 = NULL THEN PATH_TMP ELSE tmpenv0
       IN \/ /\ localtmp' = <<tmpenv, x_prefix, "XXXXXX">>
             /\ x_pc' = "umask"
             /\ UNCHANGED <<errno, x_ret>>
          \/ \* rc < 0: return -1
             /\ errno' = "ENOMEM"
             /\ x_ret' = -1
             /\ x_pc' = "done"
             /\ UNCHANGED localtmp
    /\ UNCHANGED <<fdtab, umask, files, nofile, HAVE_MKOSTEMP, x_dir, x_TMPDIR,
                   x_prefix, tmpname, old_mode, x_fd, m_fd, old_flags,
                   m_errno_save, m_ret>>
    /\ UNCHANGED notTemp

\* line 71: old_mode = umask(077)
xmkstemp_umask ==
    /\ x_pc = "umask"
    /\ old_mode' = umask
    /\ umask' = MASK_077
    /\ x_pc' = "mkstemp_cloexec"
    /\ UNCHANGED <<fdtab, errno, files, nofile, HAVE_MKOSTEMP, x_dir, x_TMPDIR,
                   x_prefix, localtmp, tmpname, x_fd, x_ret, m_fd, old_flags,
                   m_errno_save, m_ret>>
    /\ UNCHANGED notTemp

\* mkstemp(3) / mkostemp(3) on template tmpl with descriptor flags fl: a file
\* of a name that does not exist yet is created and opened on the lowest free
\* descriptor, or nothing is created and -1 returned
MkstempCreates(tmpl, fl, fdvar) ==
    \/ \E s \in Suffixes :
          /\ <<tmpl[1], tmpl[2], s>> \notin files
          /\ FreeFds(0) # {}
          /\ LET fd == Min(FreeFds(0))
                 name == <<tmpl[1], tmpl[2], s>>
             IN /\ files' = files \cup {name}
                /\ fdtab' = Install(fdtab, fd, name, fl)
                /\ localtmp' = name
                /\ fdvar' = fd
                /\ UNCHANGED errno
    \/ /\ errno' \in {"EACCES", "EEXIST", "EMFILE"}
       /\ errno' = "EMFILE" <=> FreeFds(0) = {}
       /\ fdvar' = -1
       /\ UNCHANGED <<files, fdtab, localtmp>>

\* line 26: return mkostemp(template, O_RDWR|O_CREAT|O_EXCL|O_CLOEXEC)
mkstemp_cloexec_mkostemp ==
    /\ x_pc = "mkstemp_cloexec"
    /\ HAVE_MKOSTEMP
    /\ MkstempCreates(localtmp, FD_CLOEXEC, m_ret)
    /\ x_pc' = "restore"
    /\ UNCHANGED <<umask, nofile, HAVE_MKOSTEMP, x_dir, x_TMPDIR, x_prefix,
                   tmpname, old_mode, x_fd, x_ret, m_fd, old_flags,
                   m_errno_save>>
    /\ UNCHANGED notTemp

\* lines 30-32: fd = mkstemp(template); if (fd < 0) return fd
mkstemp_cloexec_mkstemp ==
    /\ x_pc = "mkstemp_cloexec"
    /\ ~HAVE_MKOSTEMP
    /\ MkstempCreates(localtmp, 0, m_fd)
    /\ IF m_fd' < 0
       THEN m_ret' = m_fd' /\ x_pc' = "restore"
       ELSE UNCHANGED m_ret /\ x_pc' = "getfd"
    /\ UNCHANGED <<umask, nofile, HAVE_MKOSTEMP, x_dir, x_TMPDIR, x_prefix,
                   tmpname, old_mode, x_fd, x_ret, old_flags,
                   m_errno_save>>
    /\ UNCHANGED notTemp

\* lines 34-36: old_flags = fcntl(fd, F_GETFD, 0); if (old_flags < 0) goto unwind
mkstemp_cloexec_getfd ==
    /\ x_pc = "getfd"
    /\ \/ /\ old_flags' = fdtab[m_fd].flags
          /\ x_pc' = "setfd"
          /\ UNCHANGED errno
       \/ /\ old_flags' = -1
          /\ errno' = "EBADF"
          /\ x_pc' = "unwind"
    /\ UNCHANGED <<fdtab, umask, files, nofile, HAVE_MKOSTEMP, x_dir, x_TMPDIR,
                   x_prefix, localtmp, tmpname, old_mode, x_fd, x_ret, m_fd,
                   m_errno_save, m_ret>>
    /\ UNCHANGED notTemp

\* the third argument of fcntl(fd, F_SETFD, ...) at line 37
mkstemp_cloexec_setfd_arg(flags) == BitOr(flags, O_CLOEXEC)

\* lines 37-40: if (fcntl(fd, F_SETFD, old_flags | O_CLOEXEC) < 0) goto unwind;
\* return fd
mkstemp_cloexec_setfd ==
    /\ x_pc = "setfd"
    /\ \/ /\ fdtab' = SetFd(fdtab, m_fd, mkstemp_cloexec_setfd_arg(old_flags))
          /\ m_ret' = m_fd
          /\ x_pc' = "restore"
          /\ UNCHANGED errno
       \/ /\ errno' = "EINVAL"
          /\ x_pc' = "unwind"
          /\ UNCHANGED <<fdtab, m_ret>>
    /\ UNCHANGED <<umask, files, nofile, HAVE_MKOSTEMP, x_dir, x_TMPDIR,
                   x_prefix, localtmp, tmpname, old_mode, x_fd, x_ret, m_fd,
                   old_flags, m_errno_save>>
    /\ UNCHANGED notTemp

\* the unwind without its unlink: the file stays behind
mkstemp_cloexec_unwind_keeps_file ==
    /\ x_pc = "unwind"
    /\ m_errno_save' = errno
    /\ fdtab' = Close(fdtab, m_fd)
    /\ errno' = m_errno_save'
    /\ m_ret' = -1
    /\ x_pc' = "restore"
    /\ UNCHANGED <<umask, files, nofile, HAVE_MKOSTEMP, x_dir, x_TMPDIR, x_prefix,
                   localtmp, tmpname, old_mode, x_fd, x_ret, m_fd, old_flags>>
    /\ UNCHANGED notTemp

\* lines 42-48: errno_save = errno; unlink(template); close(fd);
\* errno = errno_save; return -1.  unlink and close may each set errno; the
\* file was created by this call in a directory the process can write, so
\* the unlink removes it, and close releases the descriptor whatever it returns
mkstemp_cloexec_unwind ==
    /\ x_pc = "unwind"
    /\ m_errno_save' = errno
    /\ files' = files \ {localtmp}
    /\ fdtab' = Close(fdtab, m_fd)
    /\ errno' = m_errno_save'
    /\ m_ret' = -1
    /\ x_pc' = "restore"
    /\ UNCHANGED <<umask, nofile, HAVE_MKOSTEMP, x_dir, x_TMPDIR, x_prefix,
                   localtmp, tmpname, old_mode, x_fd, x_ret, m_fd, old_flags>>
    /\ UNCHANGED notTemp

\* the return of mkstemp_cloexec with the mask left narrowed
xmkstemp_restore_forgotten ==
    /\ x_pc = "restore"
    /\ x_fd' = m_ret
    /\ x_pc' = "return"
    /\ UNCHANGED <<fdtab, errno, umask, files, nofile, HAVE_MKOSTEMP, x_dir, x_TMPDIR,
                   x_prefix, localtmp, tmpname, old_mode, x_ret, m_fd, old_flags,
                   m_errno_save, m_ret>>
    /\ UNCHANGED notTemp

\* lines 72-73: fd = mkstemp_cloexec(localtmp); umask(old_mode)
xmkstemp_restore ==
    /\ x_pc = "restore"
    /\ x_fd' = m_ret
    /\ umask' = old_mode
    /\ x_pc' = "return"
    /\ UNCHANGED <<fdtab, errno, files, nofile, HAVE_MKOSTEMP, x_dir, x_TMPDIR,
                   x_prefix, localtmp, tmpname, old_mode, x_ret, m_fd, old_flags,
                   m_errno_save, m_ret>>
    /\ UNCHANGED notTemp

\* lines 74-79: on failure the template is freed; *tmpname = localtmp; return fd
xmkstemp_return ==
    /\ x_pc = "return"
    /\ localtmp' = IF x_fd = -1 THEN NULL ELSE localtmp
    /\ tmpname' = localtmp'
    /\ x_ret' = x_fd
    /\ x_pc' = "done"
    /\ UNCHANGED <<fdtab, errno, umask, files, nofile, HAVE_MKOSTEMP, x_dir,
                   x_TMPDIR, x_prefix, old_mode, x_fd, m_fd, old_flags,
                   m_errno_save, m_ret>>
    /\ UNCHANGED notTemp

\* no call of xmkstemp is under way
IdleTemp ==
    /\ HAVE_MKOSTEMP = FALSE
    /\ x_pc = "idle"
    /\ x_dir = NULL
    /\ x_TMPDIR = NULL
    /\ x_prefix = "test"
    /\ localtmp = "uninit"
    /\ tmpname = "uninit"
    /\ old_mode = -1
    /\ x_fd = -1
    /\ x_ret = -1
    /\ m_fd = -1
    /\ old_flags = -1
    /\ m_errno_save = "uninit"
    /\ m_ret = -1

NextTemp ==
    \/ xmkstemp_asprintf
    \/ xmkstemp_umask
    \/ mkstemp_cloexec_mkostemp
    \/ mkstemp_cloexec_mkstemp
    \/ mkstemp_cloexec_getfd
    \/ mkstemp_cloexec_setfd
    \/ mkstemp_cloexec_unwind
    \/ xmkstemp_restore
    \/ xmkstemp_return

(***************************************************************************)
(* dup_fd_cloexec.                                                         *)
(***************************************************************************)
\* every descriptor table over 0 .. MaxFd, each descriptor on a file of its own
AllTables ==
    {[f \in S |-> [file |-> f, flags |-> 0]] : S \in SUBSET (0..MaxFd)}

StartDup ==
    /\ fdtab \in AllTables
    /\ errno = "0"
    /\ umask = 18
    /\ files = {}
    /\ nofile = MaxFd + 1
    /\ umask0 = umask
    /\ fdtab0 = fdtab
    /\ files0 = files
    /\ HAVE_F_DUPFD_CLOEXEC \in BOOLEAN
    /\ d_pc = IF HAVE_F_DUPFD_CLOEXEC THEN "fcntl" ELSE "dup"
    /\ oldfd \in 0..MaxFd
    /\ lowfd \in 0..MaxFd
    /\ d_fd = -1
    /\ d_flags = -1
    /\ d_errno_save = "uninit"
    /\ d_ret = -1

IdleDup ==
    /\ HAVE_F_DUPFD_CLOEXEC = FALSE
    /\ d_pc = "idle"
    /\ oldfd = 0
    /\ lowfd = 0
    /\ d_fd = -1
    /\ d_flags = -1
    /\ d_errno_save = "uninit"
    /\ d_ret = -1

\* lines 87-89: fd = fcntl(oldfd, F_DUPFD_CLOEXEC, lowfd); if (fd >= 0) return fd.
\* The call fails with EBADF on a closed oldfd, with EMFILE when no descriptor
\* >= lowfd is free, and with EINVAL on a kernel that lacks the command
dup_fd_cloexec_fcntl ==
    /\ d_pc = "fcntl"
    /\ \/ /\ oldfd \in OpenFds
          /\ FreeFds(lowfd) # {}
          /\ d_fd' = Min(FreeFds(lowfd))
          /\ fdtab' = Install(fdtab, d_fd', fdtab[oldfd].file, FD_CLOEXEC)
          /\ d_ret' = d_fd'
          /\ d_pc' = "done"
          /\ UNCHANGED errno
       \/ /\ d_fd' = -1
          /\ errno' = IF oldfd \notin OpenFds THEN "EBADF"
                       ELSE IF FreeFds(lowfd) = {} THEN "EMFILE" ELSE "EINVAL"
          /\ d_pc' = "dup"
          /\ UNCHANGED <<fdtab, d_ret>>
    /\ UNCHANGED <<umask, files, nofile, HAVE_F_DUPFD_CLOEXEC, oldfd, lowfd,
                   d_flags, d_errno_save>>
    /\ UNCHANGED notDup

\* lines 92-94: fd = dup(oldfd); if (fd < 0) return fd.  dup(2) hands out the
\* lowest free descriptor
dup_fd_cloexec_dup ==
    /\ d_pc = "dup"
    /\ IF oldfd \in OpenFds /\ FreeFds(0) # {}
       THEN /\ d_fd' = Min(FreeFds(0))
            /\ fdtab' = Install(fdtab, d_fd', fdtab[oldfd].file, 0)
            /\ d_pc' = "getfd"
            /\ UNCHANGED <<errno, d_ret>>
       ELSE /\ d_fd' = -1
            /\ errno' = IF oldfd \notin OpenFds THEN "EBADF" ELSE "EMFILE"
            /\ d_ret' = d_fd'
            /\ d_pc' = "done"
            /\ UNCHANGED fdtab
    /\ UNCHANGED <<umask, files, nofile, HAVE_F_DUPFD_CLOEXEC, oldfd, lowfd,
                   d_flags, d_errno_save>>
    /\ UNCHANGED notDup

\* lines 96-98: flags = fcntl(fd, F_GETFD); if (flags < 0) goto unwind
dup_fd_cloexec_getfd ==
    /\ d_pc = "getfd"
    /\ \/ /\ d_flags' = fdtab[d_fd].flags
          /\ d_pc' = "setfd"
          /\ UNCHANGED errno
       \/ /\ d_flags' = -1
          /\ errno' = "EBADF"
          /\ d_pc' = "unwind"
    /\ UNCHANGED <<fdtab, umask, files, nofile, HAVE_F_DUPFD_CLOEXEC, oldfd,
                   lowfd, d_fd, d_errno_save, d_ret>>
    /\ UNCHANGED notDup

\* the third argument of fcntl(fd, F_SETFD, ...) at line 99
dup_fd_cloexec_setfd_arg(flags) == BitOr(flags, FD_CLOEXEC)

\* lines 99-102: if (fcntl(fd, F_SETFD, flags | FD_CLOEXEC) < 0) goto unwind;
\* return fd
dup_fd_cloexec_setfd ==
    /\ d_pc = "setfd"
    /\ \/ /\ fdtab' = SetFd(fdtab, d_fd, dup_fd_cloexec_setfd_arg(d_flags))
          /\ d_ret' = d_fd
          /\ d_pc' = "done"
          /\ UNCHANGED errno
       \/ /\ errno' = "EINVAL"
          /\ d_pc' = "unwind"
          /\ UNCHANGED <<fdtab, d_ret>>
    /\ UNCHANGED <<umask, files, nofile, HAVE_F_DUPFD_CLOEXEC, oldfd, lowfd,
                   d_fd, d_flags, d_errno_save>>
    /\ UNCHANGED notDup

\* lines 104-106: errno_save = errno; close(fd).  close releases the
\* descriptor whatever it returns, and may set errno (EINTR, EIO)
dup_fd_cloexec_unwind ==
    /\ d_pc = "unwind"
    /\ d_errno_save' = errno
    /\ fdtab' = Close(fdtab, d_fd)
    /\ errno' \in {errno, "EINTR", "EIO"}
    /\ d_pc' = "unwound"
    /\ UNCHANGED <<umask, files, nofile, HAVE_F_DUPFD_CLOEXEC, oldfd, lowfd,
                   d_fd, d_flags, d_ret>>
    /\ UNCHANGED notDup

\* the return of the unwind with the errno the cleanup close left
dup_fd_cloexec_unwind_return_errno_lost ==
    /\ d_pc = "unwound"
    /\ d_ret' = -1
    /\ d_pc' = "done"
    /\ UNCHANGED <<fdtab, errno, umask, files, nofile, HAVE_F_DUPFD_CLOEXEC, oldfd,
                   lowfd, d_fd, d_flags, d_errno_save>>
    /\ UNCHANGED notDup

\* lines 107-109: errno = errno_save; return -1
dup_fd_cloexec_unwind_return ==
    /\ d_pc = "unwound"
    /\ errno' = d_errno_save
    /\ d_ret' = -1
    /\ d_pc' = "done"
    /\ UNCHANGED <<fdtab, umask, files, nofile, HAVE_F_DUPFD_CLOEXEC, oldfd, lowfd,
                   d_fd, d_flags, d_errno_save>>
    /\ UNCHANGED notDup

NextDup ==
    \/ dup_fd_cloexec_fcntl
    \/ dup_fd_cloexec_dup
    \/ dup_fd_cloexec_getfd
    \/ dup_fd_cloexec_setfd
    \/ dup_fd_cloexec_unwind
    \/ dup_fd_cloexec_unwind_return

(***************************************************************************)
(* close_all_fds.                                                          *)
(***************************************************************************)
DigitChars == <<"0", "1", "2", "3", "4", "5", "6", "7", "8", "9">>

IsDigit(c) == \E i \in 1..10 : DigitChars[i] = c

DigitVal(c) == (CHOOSE i \in 1..10 : DigitChars[i] = c) - 1

\* the name of descriptor n in /proc/self/fd: n in decimal
RECURSIVE Itoa(_)
Itoa(n) ==
    IF n < 10 THEN <<DigitChars[n + 1]>>
    ELSE Itoa(n \div 10) \o <<DigitChars[(n % 10) + 1]>>

\* strtol(s, &end, 10) on a name without blanks or sign: the number of
\* characters converted (end - s) ...
RECURSIVE StrtolEnd(_)
StrtolEnd(str) ==
    IF str = <<>> \/ ~IsDigit(Head(str)) THEN 0 ELSE 1 + StrtolEnd(Tail(str))

\* ... and the value of these characters
RECURSIVE StrtolVal(_, _)
StrtolVal(str, acc) ==
    IF str = <<>> \/ ~IsDigit(Head(str)) THEN acc
    ELSE StrtolVal(Tail(str), 10 * acc + DigitVal(Head(str)))

\* the search that looks at set[0] only
in_set_first_only(x, set, setsz) == setsz >= 1 /\ set[1] = x

\* lines 134-143
in_set(x, set, setsz) == \E i \in 1..setsz : set[i] = x

\* lines 115-132: the soft limit on the number of open files
get_fd_tabsize == nofile

\* the directory entry at position pos of the descriptor directory, which
\* the kernel fills from the descriptor table as it is when the entry is
\* read: ".", "..", then the open descriptors in ascending order
NoEntry == [d_name |-> <<>>, next |-> 0]

DirEntry(pos) ==
    IF pos = 0 THEN [d_name |-> <<".">>, next |-> 1]
    ELSE IF pos = 1 THEN [d_name |-> <<".", ".">>, next |-> 2]
    ELSE LET later == {f \in OpenFds : f >= pos - 2}
         IN IF later = {} THEN NoEntry
            ELSE [d_name |-> Itoa(Min(later)), next |-> Min(later) + 3]

\* dir == NULL
NoDir == [fd |-> -1, pos |-> 0]

\* the open file of the descriptor directory
ProcFdDir == -1

\* no directory was opened in this call
NoHist == [fd |-> -1, seen |-> FALSE, closes |-> 0]

ExcludeArrays == UNION {[1..n -> 0..MaxFd] : n \in 0..MaxExclude}

StartSweep ==
    /\ fdtab \in AllTables
    /\ errno = "0"
    /\ umask = 18
    /\ files = {}
    \* the limit may have been lowered below descriptors that are open
    /\ nofile \in {MaxFd - 1, MaxFd + 1}
    /\ umask0 = umask
    /\ fdtab0 = fdtab
    /\ files0 = files
    /\ proc_mounted \in BOOLEAN
    /\ s_pc = "opendir"
    /\ exclude \in ExcludeArrays
    /\ dir = NoDir
    /\ s_fd = 0
    /\ tbsz = 0
    /\ close_calls = {}
    /\ calls = 0
    /\ after1 = {}
    /\ dir_hist = NoHist

IdleSweep ==
    /\ proc_mounted = FALSE
    /\ s_pc = "idle"
    /\ exclude = <<>>
    /\ dir = NoDir
    /\ s_fd = 0
    /\ tbsz = 0
    /\ close_calls = {}
    /\ calls = 0
    /\ after1 = {}
    /\ dir_hist = NoHist

\* the return of close_all_fds
SweepReturns ==
    /\ s_pc' = "returned"
    /\ calls' = calls + 1
    /\ after1' = IF calls = 0 THEN DOMAIN fdtab' ELSE after1

\* lines 150-151 and 169: dir = opendir(_PATH_PROC_FDDIR), which takes the
\* lowest free descriptor, and fails when the directory does not exist
\* (ENOENT) or no descriptor is free (EMFILE); then tbsz = get_fd_tabsize()
close_all_fds_opendir ==
    /\ s_pc = "opendir"
    /\ \/ /\ proc_mounted
          /\ FreeFds(0) # {}
          /\ dir' = [fd |-> Min(FreeFds(0)), pos |-> 0]
          /\ fdtab' = Install(fdtab, dir'.fd, ProcFdDir, FD_CLOEXEC)
          /\ dir_hist' = [NoHist EXCEPT !.fd = dir'.fd]
          /\ s_pc' = "readdir"
          /\ UNCHANGED <<errno, s_fd, tbsz>>
       \/ /\ ~proc_mounted \/ FreeFds(0) = {}
          /\ errno' = IF ~proc_mounted THEN "ENOENT" ELSE "EMFILE"
          /\ dir' = NoDir
          /\ tbsz' = get_fd_tabsize
          /\ s_fd' = 0
          /\ s_pc' = "loop"
          /\ UNCHANGED <<fdtab, dir_hist>>
    /\ UNCHANGED <<umask, files, nofile, proc_mounted, exclude, close_calls,
                   calls, after1>>
    /\ UNCHANGED notSweep

\* the entry of the directory handled without the test of lines 161-162
close_all_fds_entry_closes_dirfd ==
    /\ s_pc = "readdir"
    /\ DirEntry(dir.pos) # NoEntry
    /\ LET d == DirEntry(dir.pos)
           end == StrtolEnd(d.d_name)
           fd == StrtolVal(d.d_name, 0)
           number == end # 0 /\ end = Len(d.d_name)
       IN /\ dir' = [dir EXCEPT !.pos = d.next]
          /\ IF ~number
             THEN UNCHANGED <<fdtab, close_calls, dir_hist>>
             ELSE IF in_set(fd, exclude, Len(exclude))
             THEN /\ dir_hist' = [dir_hist EXCEPT !.seen = @ \/ fd = dir.fd]
                  /\ UNCHANGED <<fdtab, close_calls>>
             ELSE /\ fdtab' = Close(fdtab, fd)
                  /\ close_calls' = close_calls \cup {fd}
                  /\ dir_hist' = [dir_hist EXCEPT
                                    !.seen = @ \/ fd = dir.fd,
                                    !.closes = @ + (IF fd = dir.fd THEN 1 ELSE 0)]
    /\ errno' = "0"
    /\ UNCHANGED <<umask, files, nofile, proc_mounted, s_pc, exclude, s_fd, tbsz,
                   calls, after1>>
    /\ UNCHANGED notSweep

\* lines 152-166: one entry of the directory
close_all_fds_entry ==
    /\ s_pc = "readdir"
    /\ DirEntry(dir.pos) # NoEntry
    /\ LET d == DirEntry(dir.pos)
           end == StrtolEnd(d.d_name)
           fd == StrtolVal(d.d_name, 0)
           number == end # 0 /\ end = Len(d.d_name)
       IN /\ dir' = [dir EXCEPT !.pos = d.next]
          /\ IF ~number
             THEN UNCHANGED <<fdtab, close_calls, dir_hist>>
             ELSE IF dir.fd = fd
             THEN /\ dir_hist' = [dir_hist EXCEPT !.seen = TRUE]
                  /\ UNCHANGED <<fdtab, close_calls>>
             ELSE IF in_set(fd, exclude, Len(exclude))
             THEN UNCHANGED <<fdtab, close_calls, dir_hist>>
             ELSE /\ fdtab' = Close(fdtab, fd)
                  /\ close_calls' = close_calls \cup {fd}
                  /\ dir_hist' = [dir_hist EXCEPT
                                    !.closes = @ + (IF fd = dir_hist.fd THEN 1 ELSE 0)]
    /\ errno' = "0"
    /\ UNCHANGED <<umask, files, nofile, proc_mounted, s_pc, exclude, s_fd, tbsz,
                   calls, after1>>
    /\ UNCHANGED notSweep

\* line 167: no entry is left; closedir(dir) closes the directory's descriptor
close_all_fds_closedir ==
    /\ s_pc = "readdir"
    /\ DirEntry(dir.pos) = NoEntry
    /\ fdtab' = Close(fdtab, dir.fd)
    /\ dir_hist' = [dir_hist EXCEPT !.closes = @ + 1]
    /\ dir' = NoDir
    /\ UNCHANGED <<errno, umask, files, nofile, proc_mounted, exclude, s_fd, tbsz,
                   close_calls>>
    /\ SweepReturns
    /\ UNCHANGED notSweep

\* lines 171-174: one descriptor number of the fallback loop; close() of a
\* number that is not open fails with EBADF, which nobody looks at
close_all_fds_loop ==
    /\ s_pc = "loop"
    /\ s_fd < tbsz
    /\ IF ~in_set(s_fd, exclude, Len(exclude))
       THEN /\ fdtab' = Close(fdtab, s_fd)
            /\ close_calls' = close_calls \cup {s_fd}
            /\ errno' = IF s_fd \in OpenFds THEN errno ELSE "EBADF"
       ELSE UNCHANGED <<fdtab, close_calls, errno>>
    /\ s_fd' = s_fd + 1
    /\ UNCHANGED <<umask, files, nofile, proc_mounted, s_pc, exclude, dir, tbsz,
                   calls, after1, dir_hist>>
    /\ UNCHANGED notSweep

\* line 171: fd < tbsz is false
close_all_fds_loop_end ==
    /\ s_pc = "loop"
    /\ s_fd >= tbsz
    /\ UNCHANGED <<procVars, proc_mounted, exclude, dir, s_fd, tbsz, close_calls,
                   dir_hist>>
    /\ SweepReturns
    /\ UNCHANGED notSweep

\* the caller calls close_all_fds again, with the same exclusion array
close_all_fds_again ==
    /\ s_pc = "returned"
    /\ calls < MaxCalls
    /\ s_pc' = "opendir"
    /\ close_calls' = {}
    /\ dir_hist' = NoHist
    /\ UNCHANGED <<procVars, proc_mounted, exclude, dir, s_fd, tbsz, calls, after1>>
    /\ UNCHANGED notSweep

NextSweep ==
    \/ close_all_fds_opendir
    \/ close_all_fds_entry
    \/ close_all_fds_closedir
    \/ close_all_fds_loop
    \/ close_all_fds_loop_end
    \/ close_all_fds_again

(***************************************************************************)
(* mkdir_p.                                                                *)
(***************************************************************************)
\* the terminating '\0' of a C string
NUL == "NUL"
PathChars == {"/", "a", "b"}

\* the strings of PathChars of up to MaxPathLen characters, the empty one included
Paths == UNION {[1..n -> PathChars] : n \in 0..MaxPathLen}

\* path == NULL: no string at all
NullPath == <<"NULL">>

\* strdup(path): the characters and the terminator
Strdup(str) == str \o <<NUL>>

\* the length of the C string that starts at index i of cs
RECURSIVE Strlen(_, _)
Strlen(cs, i) == IF cs[i] = NUL THEN 0 ELSE 1 + Strlen(cs, i + 1)

\* the C string that starts at index i of cs
CStr(cs, i) == SubSeq(cs, i, i + Strlen(cs, i) - 1)

\* strrchr(cs + i, c): the index of the last c of the C string at i, 0 for NULL
RECURSIVE Strrchr(_, _, _)
Strrchr(cs, i, c) ==
    IF cs[i] = NUL THEN 0
    ELSE LET later == Strrchr(cs, i + 1, c)
         IN IF later # 0 THEN later
            ELSE IF cs[i] = c THEN i
            ELSE 0

\* strchr(cs + i, c): the index of the first c of the C string at i, 0 for NULL
RECURSIVE Strchr(_, _, _)
Strchr(cs, i, c) ==
    IF cs[i] = NUL THEN 0
    ELSE IF cs[i] = c THEN i
    ELSE Strchr(cs, i + 1, c)

\* the kernel's reading of a path name: its components, empty ones dropped
\* (the working directory is the root, so "a" and "/a" name the same file)
RECURSIVE Components(_, _)
Components(str, cur) ==
    IF str = <<>> THEN (IF cur = <<>> THEN <<>> ELSE <<cur>>)
    ELSE IF Head(str) = "/"
         THEN (IF cur = <<>> THEN <<>> ELSE <<cur>>) \o Components(Tail(str), <<>>)
         ELSE Components(Tail(str), Append(cur, Head(str)))

Exists(f, node) == node \in f.dir \/ node \in f.reg

\* mkdir(2) of str on file system f: the errno of its failure, "0" when the
\* directory can be made
MkdirErrno(f, str) ==
    LET comps == Components(str, <<>>)
        n == Len(comps)
        bad == {k \in 1..(n - 1) : SubSeq(comps, 1, k) \notin f.dir}
    IN IF bad # {}
       THEN (IF SubSeq(comps, 1, Min(bad)) \in f.reg THEN "ENOTDIR" ELSE "ENOENT")
       ELSE IF Exists(f, comps) THEN "EEXIST"
       ELSE "0"

\* the file systems a call starts from: a and b in the root, and in a, a and b;
\* each missing, a regular file or a directory
Kinds == {"none", "reg", "dir"}

FsOf(ka, kaa, kab, kb) ==
    LET top == {<<<<<<"a">>>>, ka>>, <<<<<<"b">>>>, kb>>}
        sub == IF ka = "dir"
               THEN {<<<<<<"a">>, <<"a">>>>, kaa>>, <<<<<<"a">>, <<"b">>>>, kab>>}
               ELSE {}
        all == top \cup sub
    IN [dir |-> {<<>>} \cup {e[1] : e \in {x \in all : x[2] = "dir"}},
        reg |-> {e[1] : e \in {x \in all : x[2] = "reg"}}]

FileSystems == {FsOf(ka, kaa, kab, kb) : ka \in Kinds, kaa \in Kinds, kab \in Kinds,
                                          kb \in Kinds}

NoFs == [dir |-> {<<>>}, reg |-> {}]

StartMkdir ==
    /\ errno = "0"
    /\ fs \in FileSystems
    /\ fs00 = fs
    /\ mk_pc = "enter"
    /\ path \in Paths \cup {NullPath}
    /\ mk_dir = <<>>
    /\ mk_p = 0
    /\ mk_rc = 0
    /\ mk_ret = 0
    /\ mkdir_calls = <<>>
    /\ mkdir_errs = <<>>

IdleMkdir ==
    /\ fs = NoFs
    /\ fs00 = fs
    /\ mk_pc = "idle"
    /\ path = NullPath
    /\ mk_dir = <<>>
    /\ mk_p = 0
    /\ mk_rc = 0
    /\ mk_ret = 0
    /\ mkdir_calls = <<>>
    /\ mkdir_errs = <<>>

\* the entry that checks !path only and takes the empty string for a path
mkdir_p_enter_accepts_empty ==
    /\ mk_pc = "enter"
    /\ IF path = NullPath
       THEN /\ mk_ret' = -EINVAL
            /\ mk_pc' = "done"
            /\ UNCHANGED <<errno, mk_dir, mk_p>>
       ELSE \/ /\ mk_dir' = Strdup(path)
               /\ mk_p' = IF mk_dir'[1] = "/" THEN 2 ELSE 1
               /\ mk_pc' = "walk"
               /\ UNCHANGED <<errno, mk_ret>>
            \/ \* strdup fails
               /\ errno' = "ENOMEM"
               /\ mk_ret' = -ENOMEM
               /\ mk_pc' = "done"
               /\ UNCHANGED <<mk_dir, mk_p>>
    /\ UNCHANGED <<fs, path, mk_rc, mkdir_calls, mkdir_errs, fs00>>
    /\ UNCHANGED notMkdir

\* lines 211-221: the argument is checked and copied, a leading '/' skipped
mkdir_p_enter ==
    /\ mk_pc = "enter"
    /\ IF path = NullPath \/ path = <<>>
       THEN /\ mk_ret' = -EINVAL
            /\ mk_pc' = "done"
            /\ UNCHANGED <<errno, mk_dir, mk_p>>
       ELSE \/ /\ mk_dir' = Strdup(path)
               /\ mk_p' = IF mk_dir'[1] = "/" THEN 2 ELSE 1
               /\ mk_pc' = "walk"
               /\ UNCHANGED <<errno, mk_ret>>
            \/ \* strdup fails
               /\ errno' = "ENOMEM"
               /\ mk_ret' = -ENOMEM
               /\ mk_pc' = "done"
               /\ UNCHANGED <<mk_dir, mk_p>>
    /\ UNCHANGED <<fs, path, mk_rc, mkdir_calls, mkdir_errs, fs00>>
    /\ UNCHANGED notMkdir

\* the turn of the loop that notes a failed mkdir in rc and walks on
mkdir_p_segment_walks_on ==
    /\ mk_pc = "walk"
    /\ mk_dir[mk_p] # NUL
    /\ LET e == Strchr(mk_dir, mk_p, "/")
           cut == IF e # 0 THEN [mk_dir EXCEPT ![e] = NUL] ELSE mk_dir
           arg == CStr(cut, 1)
       IN IF cut[mk_p] # NUL
          THEN /\ mkdir_calls' = Append(mkdir_calls, arg)
               /\ \E err \in {MkdirErrno(fs, arg), "EACCES"} :
                    /\ mkdir_errs' = Append(mkdir_errs, err)
                    /\ errno' = IF err = "0" THEN errno ELSE err
                    /\ fs' = IF err = "0"
                             THEN [fs EXCEPT !.dir = @ \cup {Components(arg, <<>>)}]
                             ELSE fs
                    /\ mk_rc' = IF err # "0" /\ err # "EEXIST" THEN -1 ELSE 0
                    /\ IF e = 0
                       THEN mk_pc' = "free" /\ UNCHANGED <<mk_dir, mk_p>>
                       ELSE /\ mk_dir' = [cut EXCEPT ![e] = "/"]
                            /\ mk_p' = e + 1
                            /\ UNCHANGED mk_pc
          ELSE \* an empty segment: e = p
               /\ mk_dir' = [cut EXCEPT ![e] = "/"]
               /\ mk_p' = e + 1
               /\ UNCHANGED <<errno, fs, mk_rc, mk_pc, mkdir_calls, mkdir_errs>>
    /\ UNCHANGED <<path, mk_ret, fs00>>
    /\ UNCHANGED notMkdir

\* lines 223-237: one turn of the loop.  mkdir(2) fails as the file system
\* says, and may fail on a directory it could make (EACCES)
mkdir_p_segment ==
    /\ mk_pc = "walk"
    /\ mk_dir[mk_p] # NUL
    /\ LET e == Strchr(mk_dir, mk_p, "/")
           cut == IF e # 0 THEN [mk_dir EXCEPT ![e] = NUL] ELSE mk_dir
           arg == CStr(cut, 1)
       IN IF cut[mk_p] # NUL
          THEN /\ mkdir_calls' = Append(mkdir_calls, arg)
               /\ \E err \in {MkdirErrno(fs, arg), "EACCES"} :
                    /\ mkdir_errs' = Append(mkdir_errs, err)
                    /\ errno' = IF err = "0" THEN errno ELSE err
                    /\ fs' = IF err = "0"
                             THEN [fs EXCEPT !.dir = @ \cup {Components(arg, <<>>)}]
                             ELSE fs
                    /\ IF err # "0" /\ err # "EEXIST"
                       THEN \* break with rc = -1
                            /\ mk_rc' = -1
                            /\ mk_dir' = cut
                            /\ mk_pc' = "free"
                            /\ UNCHANGED mk_p
                       ELSE /\ mk_rc' = 0
                            /\ IF e = 0
                               THEN mk_pc' = "free" /\ UNCHANGED <<mk_dir, mk_p>>
                               ELSE /\ mk_dir' = [cut EXCEPT ![e] = "/"]
                                    /\ mk_p' = e + 1
                                    /\ UNCHANGED mk_pc
          ELSE \* an empty segment: e = p
               /\ mk_dir' = [cut EXCEPT ![e] = "/"]
               /\ mk_p' = e + 1
               /\ UNCHANGED <<errno, fs, mk_rc, mk_pc, mkdir_calls, mkdir_errs>>
    /\ UNCHANGED <<path, mk_ret, fs00>>
    /\ UNCHANGED notMkdir

\* lines 223 and 239-240: the loop has ended; free(dir); return rc
mkdir_p_return ==
    /\ \/ mk_pc = "free"
       \/ mk_pc = "walk" /\ mk_dir[mk_p] = NUL
    /\ mk_ret' = mk_rc
    /\ mk_pc' = "done"
    /\ UNCHANGED <<errno, fs, path, mk_dir, mk_p, mk_rc, mkdir_calls, mkdir_errs,
                   fs00>>
    /\ UNCHANGED notMkdir

NextMkdir ==
    \/ mkdir_p_enter
    \/ mkdir_p_segment
    \/ mkdir_p_return

(***************************************************************************)
(* ul_copy_file and copy_file_simple.                                      *)
(***************************************************************************)
Bytes == {1, 2}

\* a cell of buf that nothing was read into
Garbage == -1

Sources == UNION {[1..n -> Bytes] : n \in 0..MaxLen}

\* the bytes of the source between its offset and its end
Avail == Len(src) - from_pos

StartCopy ==
    /\ errno = "0"
    /\ HAVE_SENDFILE \in BOOLEAN
    /\ HAVE_EXPLICIT_BZERO \in BOOLEAN
    /\ src \in Sources
    /\ from_pos \in 0..Len(src)
    /\ from_pos0 = from_pos
    /\ is_reg \in BOOLEAN
    /\ dst = <<>>
    /\ c_pc = IF HAVE_SENDFILE THEN "fstat" ELSE "read"
    /\ left = 0
    /\ buf = [i \in 1..BufSize |-> Garbage]
    /\ nr = 0
    /\ off = 0
    /\ c_ret = 0
    /\ read_failed = FALSE
    /\ write_failed = FALSE
    /\ sendfile_failed = FALSE
    /\ short_write = FALSE
    /\ sent = 0
    /\ simple = ~HAVE_SENDFILE

IdleCopy ==
    /\ HAVE_SENDFILE = FALSE
    /\ HAVE_EXPLICIT_BZERO = FALSE
    /\ src = <<>>
    /\ from_pos = 0
    /\ from_pos0 = 0
    /\ is_reg = FALSE
    /\ dst = <<>>
    /\ c_pc = "idle"
    /\ left = 0
    /\ buf = <<>>
    /\ nr = 0
    /\ off = 0
    /\ c_ret = 0
    /\ read_failed = FALSE
    /\ write_failed = FALSE
    /\ sendfile_failed = FALSE
    /\ short_write = FALSE
    /\ sent = 0
    /\ simple = FALSE

\* lines 280-284: fstat(from, &st); left = st.st_size.  The size is the one
\* of the moment of the call: the file may be shorter or longer afterwards
ul_copy_file_fstat ==
    /\ c_pc = "fstat"
    /\ \/ /\ errno' = "EIO"
          /\ c_ret' = -1
          /\ c_pc' = "done"
          /\ UNCHANGED left
       \/ /\ ~is_reg
          /\ c_pc' = "read"
          /\ UNCHANGED <<errno, c_ret, left>>
       \/ /\ is_reg
          /\ \E st_size \in 0..MaxLen :
                /\ left' = st_size
                /\ c_pc' = IF st_size # 0 THEN "sendfile" ELSE "drain"
          /\ UNCHANGED <<errno, c_ret>>
    /\ UNCHANGED <<HAVE_SENDFILE, HAVE_EXPLICIT_BZERO, src, from_pos, is_reg, dst,
                   buf, nr, off, from_pos0, read_failed, write_failed,
                   sendfile_failed, short_write, sent>>
    /\ simple' = (simple \/ c_pc' = "read")
    /\ UNCHANGED notCopy

\* sendfile(to, from, NULL, count): -1 and nothing moved, 0 at the end of the
\* source, or 1 .. count of the bytes at the offset of from moved to to
Sendfile(count, nw) ==
    /\ nw \in -1..count
    /\ nw <= Avail
    /\ nw >= 0 => (nw = 0 <=> Avail = 0)
    /\ IF nw > 0
       THEN /\ dst' = dst \o SubSeq(src, from_pos + 1, from_pos + nw)
            /\ from_pos' = from_pos + nw
            /\ sent' = sent + nw
            /\ UNCHANGED <<errno, sendfile_failed>>
       ELSE /\ UNCHANGED <<dst, from_pos, sent>>
            /\ sendfile_failed' = (sendfile_failed \/ nw < 0)
            /\ errno' = IF nw < 0 THEN "EINVAL" ELSE errno

\* the turn of the size-bounded loop that takes a zero transfer for a failure
ul_copy_file_sendfile_zero_falls_back ==
    /\ c_pc = "sendfile"
    /\ \E nw \in -1..MaxLen :
          /\ Sendfile(left, nw)
          /\ IF nw <= 0
             THEN c_pc' = "read" /\ UNCHANGED <<left, c_ret>>
             ELSE /\ left' = left - nw
                  /\ c_pc' = IF left' # 0 THEN "sendfile" ELSE "drain"
                  /\ UNCHANGED c_ret
    /\ UNCHANGED <<HAVE_SENDFILE, HAVE_EXPLICIT_BZERO, src, is_reg, buf, nr, off,
                   from_pos0, read_failed, write_failed, short_write>>
    /\ simple' = (simple \/ c_pc' = "read")
    /\ UNCHANGED notCopy

\* lines 284-289: one turn of for (left = st.st_size; left != 0; left -= nw)
ul_copy_file_sendfile ==
    /\ c_pc = "sendfile"
    /\ \E nw \in -1..MaxLen :
          /\ Sendfile(left, nw)
          /\ IF nw < 0
             THEN c_pc' = "read" /\ UNCHANGED <<left, c_ret>>
             ELSE IF nw = 0
             THEN c_ret' = 0 /\ c_pc' = "done" /\ UNCHANGED left
             ELSE /\ left' = left - nw
                  /\ c_pc' = IF left' # 0 THEN "sendfile" ELSE "drain"
                  /\ UNCHANGED c_ret
    /\ UNCHANGED <<HAVE_SENDFILE, HAVE_EXPLICIT_BZERO, src, is_reg, buf, nr, off,
                   from_pos0, read_failed, write_failed, short_write>>
    /\ simple' = (simple \/ c_pc' = "read")
    /\ UNCHANGED notCopy

\* the drain loop that takes a failed sendfile for the end of the source
ul_copy_file_drain_stops_on_failure ==
    /\ c_pc = "drain"
    /\ \E nw \in -1..SendfileChunk :
          /\ Sendfile(SendfileChunk, nw)
          /\ IF nw <= 0
             THEN c_ret' = 0 /\ c_pc' = "done"
             ELSE UNCHANGED <<c_pc, c_ret>>
    /\ UNCHANGED <<HAVE_SENDFILE, HAVE_EXPLICIT_BZERO, src, is_reg, left, buf, nr,
                   off, from_pos0, read_failed, write_failed, short_write>>
    /\ simple' = (simple \/ c_pc' = "read")
    /\ UNCHANGED notCopy

\* lines 292-295: one turn of while ((nw = sendfile(to, from, NULL, 1024*1024)) != 0)
ul_copy_file_drain ==
    /\ c_pc = "drain"
    /\ \E nw \in -1..SendfileChunk :
          /\ Sendfile(SendfileChunk, nw)
          /\ IF nw < 0
             THEN c_pc' = "read" /\ UNCHANGED c_ret
             ELSE IF nw = 0
             THEN c_ret' = 0 /\ c_pc' = "done"
             ELSE UNCHANGED <<c_pc, c_ret>>
    /\ UNCHANGED <<HAVE_SENDFILE, HAVE_EXPLICIT_BZERO, src, is_reg, left, buf, nr,
                   off, from_pos0, read_failed, write_failed, short_write>>
    /\ simple' = (simple \/ c_pc' = "read")
    /\ UNCHANGED notCopy

\* lines 260 and 264-269: nr = read(from, buf, sizeof(buf)): -1, 0 at the end
\* of the source, or 1 .. sizeof(buf) bytes; with nr <= 0 the function returns
copy_file_simple_read ==
    /\ c_pc = "read"
    /\ \E n \in -1..BufSize :
          /\ n <= Avail
          /\ n >= 0 => (n = 0 <=> Avail = 0)
          /\ nr' = n
          /\ IF n > 0
             THEN /\ buf' = [i \in 1..BufSize |->
                                IF i <= n THEN src[from_pos + i] ELSE buf[i]]
                  /\ from_pos' = from_pos + n
                  /\ off' = 0
                  /\ c_pc' = "write"
                  /\ UNCHANGED <<errno, c_ret, read_failed>>
             ELSE IF n < 0
             THEN /\ errno' = "EIO"
                  /\ read_failed' = TRUE
                  /\ c_ret' = -1
                  /\ c_pc' = "done"
                  /\ UNCHANGED <<buf, from_pos, off>>
             ELSE /\ buf' = IF HAVE_EXPLICIT_BZERO
                            THEN [i \in 1..BufSize |-> 0] ELSE buf
                  /\ c_ret' = 0
                  /\ c_pc' = "done"
                  /\ UNCHANGED <<errno, from_pos, off, read_failed>>
    /\ UNCHANGED <<HAVE_SENDFILE, HAVE_EXPLICIT_BZERO, src, is_reg, dst, left,
                   from_pos0, write_failed, sendfile_failed, short_write, sent>>
    /\ simple' = (simple \/ c_pc' = "read")
    /\ UNCHANGED notCopy

\* the write of a chunk that reports a failure as a read error
copy_file_simple_write_as_read_error ==
    /\ c_pc = "write"
    /\ \E nw \in -1..nr :
          IF nw < 0
          THEN /\ errno' = "ENOSPC"
               /\ write_failed' = TRUE
               /\ c_ret' = -1
               /\ c_pc' = "done"
               /\ UNCHANGED <<dst, nr, off, short_write>>
          ELSE /\ dst' = dst \o SubSeq(buf, off + 1, off + nw)
               /\ nr' = nr - nw
               /\ off' = off + nw
               /\ short_write' = (short_write \/ nw < nr)
               /\ c_pc' = IF nr' > 0 THEN "write" ELSE "read"
               /\ UNCHANGED <<errno, c_ret, write_failed>>
    /\ UNCHANGED <<HAVE_SENDFILE, HAVE_EXPLICIT_BZERO, src, from_pos, is_reg, left,
                   buf, from_pos0, read_failed, sendfile_failed, sent>>
    /\ simple' = (simple \/ c_pc' = "read")
    /\ UNCHANGED notCopy

\* the write of a chunk that starts again at the head of buf after a short write
copy_file_simple_write_from_head ==
    /\ c_pc = "write"
    /\ \E nw \in -1..nr :
          IF nw < 0
          THEN /\ errno' = "ENOSPC"
               /\ write_failed' = TRUE
               /\ c_ret' = -2
               /\ c_pc' = "done"
               /\ UNCHANGED <<dst, nr, off, short_write>>
          ELSE /\ dst' = dst \o SubSeq(buf, 1, nw)
               /\ nr' = nr - nw
               /\ off' = off + nw
               /\ short_write' = (short_write \/ nw < nr)
               /\ c_pc' = IF nr' > 0 THEN "write" ELSE "read"
               /\ UNCHANGED <<errno, c_ret, write_failed>>
    /\ UNCHANGED <<HAVE_SENDFILE, HAVE_EXPLICIT_BZERO, src, from_pos, is_reg, left,
                   buf, from_pos0, read_failed, sendfile_failed, sent>>
    /\ simple' = (simple \/ c_pc' = "read")
    /\ UNCHANGED notCopy

\* lines 261-263: one turn of for (off = 0; nr > 0; nr -= nw, off += nw):
\* nw = write(to, buf + off, nr): -1, or 0 .. nr bytes written
copy_file_simple_write ==
    /\ c_pc = "write"
    /\ \E nw \in -1..nr :
          IF nw < 0
          THEN /\ errno' = "ENOSPC"
               /\ write_failed' = TRUE
               /\ c_ret' = -2
               /\ c_pc' = "done"
               /\ UNCHANGED <<dst, nr, off, short_write>>
          ELSE /\ dst' = dst \o SubSeq(buf, off + 1, off + nw)
               /\ nr' = nr - nw
               /\ off' = off + nw
               /\ short_write' = (short_write \/ nw < nr)
               /\ c_pc' = IF nr' > 0 THEN "write" ELSE "read"
               /\ UNCHANGED <<errno, c_ret, write_failed>>
    /\ UNCHANGED <<HAVE_SENDFILE, HAVE_EXPLICIT_BZERO, src, from_pos, is_reg, left,
                   buf, from_pos0, read_failed, sendfile_failed, sent>>
    /\ simple' = (simple \/ c_pc' = "read")
    /\ UNCHANGED notCopy

NextCopy ==
    \/ ul_copy_file_fstat
    \/ ul_copy_file_sendfile
    \/ ul_copy_file_drain
    \/ copy_file_simple_read
    \/ copy_file_simple_write

(***************************************************************************)
(* The specifications: one operation runs, the others are idle.            *)
(***************************************************************************)
InitTemp == StartTemp /\ IdleDup /\ IdleSweep /\ IdleMkdir /\ IdleCopy

InitDup == StartDup /\ IdleTemp /\ IdleSweep /\ IdleMkdir /\ IdleCopy

InitSweep == StartSweep /\ IdleTemp /\ IdleDup /\ IdleMkdir /\ IdleCopy

\* a process that only calls mkdir_p or ul_copy_file
IdleProc ==
    /\ fdtab \in {[f \in {0, 1, 2} |-> [file |-> f, flags |-> 0]]}
    /\ umask = 18
    /\ files = {}
    /\ nofile = MaxFd + 1
    /\ umask0 = umask
    /\ fdtab0 = fdtab
    /\ files0 = files

InitMkdir == StartMkdir /\ IdleProc /\ IdleTemp /\ IdleDup /\ IdleSweep /\ IdleCopy

InitCopy == StartCopy /\ IdleProc /\ IdleTemp /\ IdleDup /\ IdleSweep /\ IdleMkdir

SpecTemp == InitTemp /\ [][NextTemp]_vars

SpecDup == InitDup /\ [][NextDup]_vars

SpecSweep == InitSweep /\ [][NextSweep]_vars

SpecMkdir == InitMkdir /\ [][NextMkdir]_vars

SpecCopy == InitCopy /\ [][NextCopy]_vars

(***************************************************************************)
(* The claims about xmkstemp and mkstemp_cloexec.                          *)
(***************************************************************************)
\* the steps between umask(077) and umask(old_mode)
MaskBracket == {"mkstemp_cloexec", "getfd", "setfd", "unwind", "restore"}

\* C1: whenever mkstemp_cloexec, and so xmkstemp, returns a descriptor
\* fd >= 0, that descriptor has FD_CLOEXEC set, with mkostemp and on the
\* portable path alike.
C1_ReturnedDescriptorIsCloexec ==
    /\ (x_pc \in {"restore", "return"} /\ m_ret >= 0) => IsCloexec(fdtab, m_ret)
    /\ (x_pc = "done" /\ x_ret >= 0) => IsCloexec(fdtab, x_ret)

\* C2: every return of mkstemp_cloexec and of xmkstemp that reports -1
\* leaves the file system without an entry created by the call and the
\* descriptor table without a descriptor opened by it.
C2_FailureLeavesNothing ==
    /\ (x_pc \in {"restore", "return"} /\ m_ret = -1) =>
            files = files0 /\ fdtab = fdtab0
    /\ (x_pc = "done" /\ x_ret = -1) => files = files0 /\ fdtab = fdtab0

\* xmkstemp has returned -1 after mkstemp succeeded and F_SETFD failed
C2_Witness ==
    /\ x_pc = "done"
    /\ x_ret = -1
    /\ old_flags >= 0
    /\ m_errno_save = "EINVAL"

\* C3: on every return path of xmkstemp the file-creation mask is the one
\* before the call; it is 077 between umask(077) and umask(old_mode), and
\* the one before the call everywhere else.
C3_MaskRestored ==
    /\ x_pc = "done" => umask = umask0
    /\ x_pc \in MaskBracket => umask = MASK_077
    /\ x_pc \notin MaskBracket => umask = umask0

\* xmkstemp has returned after a failed marking, from a mask that was not 077
C3_Witness ==
    /\ x_pc = "done"
    /\ umask0 = 18
    /\ old_mode = 18
    /\ m_errno_save # "uninit"

(***************************************************************************)
(* The claims about dup_fd_cloexec.                                        *)
(***************************************************************************)
\* C4: whenever dup_fd_cloexec(oldfd, lowfd) returns a descriptor fd >= 0,
\* fd >= lowfd and fd is marked close-on-exec, whatever the outcomes of
\* fcntl(F_DUPFD_CLOEXEC), dup and the marking calls.
C4_DupAtOrAboveFloorAndCloexec ==
    (d_pc = "done" /\ d_ret >= 0) => d_ret >= lowfd /\ IsCloexec(fdtab, d_ret)

(***************************************************************************)
(* The claims about close_all_fds.                                         *)
(***************************************************************************)
\* C5: after close_all_fds(exclude, exsz) returns, every descriptor that is
\* still open is a member of exclude, from any set of open descriptors,
\* with the enumeration of the descriptor directory and with the fallback
\* loop over 0 .. get_fd_tabsize()-1 alike.
C5_OnlyExcludedStayOpen ==
    s_pc = "returned" => OpenFds \subseteq Range(exclude)

\* C6: close_all_fds is idempotent: a second call in succession, with the
\* same exclusion array, leaves the open descriptors the first call left.
C6_SecondCallChangesNothing ==
    (s_pc = "returned" /\ calls = 2) => OpenFds = after1

(***************************************************************************)
(* The claims about mkdir_p.                                               *)
(***************************************************************************)
\* C7: whenever mkdir_p(path, mode) returns 0, the full path and every
\* ancestor prefix of it exist as directories; a component that exists as
\* something else, the last one included, makes mkdir_p fail.
C7_SuccessMeansDirectories ==
    (mk_pc = "done" /\ mk_ret = 0) =>
        LET comps == Components(path, <<>>)
        IN \A k \in 1..Len(comps) : SubSeq(comps, 1, k) \in fs.dir

(***************************************************************************)
(* The claims about ul_copy_file.                                          *)
(***************************************************************************)
\* the bytes of the source from the offset it had before the call to its end
Expected == SubSeq(src, from_pos0 + 1, Len(src))

\* the bytes of the chunk in buf that are not written yet
Unwritten == IF c_pc = "write" THEN SubSeq(buf, off + 1, off + nr) ELSE <<>>

\* C8: on the buffered path, entered without a failed sendfile, when no
\* read or write fails, ul_copy_file returns 0 and the bytes written are
\* the bytes of the source from its starting offset to its end, in order
\* and each once, whatever the source length and the short writes: at every
\* step the bytes written, followed by the unwritten rest of the chunk, are
\* the bytes read so far.
C8_BufferedCopyIsExact ==
    (simple /\ ~sendfile_failed) =>
        /\ c_pc \in {"read", "write"} =>
                dst \o Unwritten = SubSeq(src, from_pos0 + 1, from_pos)
        /\ (c_pc = "done" /\ c_ret = 0) => dst = Expected
        /\ (c_pc = "done" /\ simple /\ ~read_failed /\ ~write_failed) => c_ret = 0

\* a source longer than the buffer was copied by the buffered path, with a
\* short write on the way
C8_Witness ==
    /\ c_pc = "done"
    /\ c_ret = 0
    /\ simple
    /\ ~sendfile_failed
    /\ short_write
    /\ Len(dst) > BufSize
    /\ from_pos0 = 0

\* C9: when a sendfile call fails, in the size-bounded loop or in the drain
\* loop and after any number of partial transfers, the function goes on
\* with the buffered path from the descriptors' current positions, and when
\* that path succeeds the destination holds the bytes of the source exactly.
C9_FallbackCopyIsExact ==
    sendfile_failed =>
        /\ simple
        /\ c_pc \in {"read", "write"} =>
                dst \o Unwritten = SubSeq(src, from_pos0 + 1, from_pos)
        /\ (c_pc = "done" /\ c_ret = 0) => dst = Expected
        /\ (c_pc = "done" /\ ~read_failed /\ ~write_failed) => c_ret = 0

\* sendfile failed after it had moved some bytes, and the buffered path
\* copied the rest
C9_Witness ==
    /\ c_pc = "done"
    /\ c_ret = 0
    /\ sendfile_failed
    /\ sent > 0
    /\ Len(dst) > sent

\* C10: a failing read yields -1 and never -2, a failing write yields -2 and
\* never -1, and 0 is returned only when neither a read nor a write failed,
\* also when the buffered path is entered after a failed sendfile.
C10_ReadAndWriteErrorsDiffer ==
    c_pc = "done" =>
        /\ read_failed => c_ret = -1
        /\ write_failed => c_ret = -2
        /\ c_ret = 0 => ~read_failed /\ ~write_failed
        /\ c_ret \in {0, -1, -2}

\* a write failed on the buffered path that a failed sendfile led to
C10_Witness ==
    /\ c_pc = "done"
    /\ write_failed
    /\ sendfile_failed
    /\ c_ret = -2

(***************************************************************************)
(* The claims about the argument check and the walk of mkdir_p.            *)
(***************************************************************************)
\* C11: mkdir_p called with a NULL path or with the empty string returns
\* -EINVAL, calls mkdir not once and leaves the file system as it was.
C11_NullOrEmptyIsInvalid ==
    (path = NullPath \/ path = <<>>) =>
        /\ mk_pc \in {"enter", "done"}
        /\ mkdir_calls = <<>>
        /\ fs = fs00
        /\ mk_pc = "done" => mk_ret = -EINVAL

\* mkdir_p("") has returned -EINVAL on a file system that holds files
C11_Witness ==
    /\ mk_pc = "done"
    /\ path = <<>>
    /\ mk_ret = -EINVAL
    /\ fs.reg # {}

(***************************************************************************)
(* The claim about the unwind of dup_fd_cloexec.                           *)
(***************************************************************************)
\* C12: on the duplicate-then-mark path of dup_fd_cloexec, when
\* fcntl(F_GETFD) or fcntl(F_SETFD) fails after dup succeeded, the duplicate
\* is closed, -1 is returned, the open descriptors are those before the
\* call, and errno on return is the one the failed marking call set (EBADF
\* from F_GETFD, EINVAL from F_SETFD), whatever the cleanup close did to
\* errno.
C12_UnwindClosesAndKeepsErrno ==
    /\ d_pc = "unwound" => d_fd \notin OpenFds
    /\ (d_pc = "done" /\ d_fd >= 0 /\ d_ret < 0) =>
            /\ d_ret = -1
            /\ d_fd \notin OpenFds
            /\ fdtab = fdtab0
            /\ errno = IF d_flags < 0 THEN "EBADF" ELSE "EINVAL"

\* dup_fd_cloexec has returned -1 after F_SETFD failed on the duplicate
C12_Witness ==
    /\ d_pc = "done"
    /\ d_ret = -1
    /\ d_fd >= 0
    /\ d_flags >= 0
    /\ d_errno_save = "EINVAL"
    /\ HAVE_F_DUPFD_CLOEXEC

(***************************************************************************)
(* The claims about what close_all_fds leaves open.                        *)
(***************************************************************************)
\* C13: close_all_fds never passes to close a descriptor number that is in
\* exclude, with the enumeration and with the fallback loop alike: every
\* descriptor that is in exclude and was open before the call is open, on
\* the same open file and with the same flags, at every step of the call
\* and after it.
C13_ExcludedAreNeverClosed ==
    /\ close_calls \cap Range(exclude) = {}
    /\ \A f \in Range(exclude) \cap DOMAIN fdtab0 :
            f \in OpenFds /\ fdtab[f] = fdtab0[f]

\* a call has returned that closed descriptors and was given two distinct
\* excluded descriptors, the second of them open
C13_Witness ==
    /\ s_pc = "returned"
    /\ Len(exclude) = 2
    /\ exclude[1] # exclude[2]
    /\ exclude[2] \in DOMAIN fdtab0
    /\ exclude[2] \in OpenFds
    /\ close_calls # {}
    /\ DOMAIN fdtab0 \ Range(exclude) # {}

\* C14: with the enumeration, the descriptor behind the directory handle is
\* never closed by the loop over the entries, although its own entry is
\* among those read: it is open, on the directory, while entries are read,
\* and when the call returns it has been closed once, by closedir.
C14_DirfdClosedOnceByClosedir ==
    /\ s_pc = "readdir" =>
            /\ dir_hist.fd = dir.fd
            /\ dir.fd \in OpenFds
            /\ fdtab[dir.fd].file = ProcFdDir
            /\ dir.fd \notin close_calls
            /\ dir_hist.closes = 0
    /\ (s_pc = "returned" /\ dir_hist.fd >= 0) =>
            /\ dir_hist.seen
            /\ dir_hist.fd \notin close_calls
            /\ dir_hist.closes = 1
            /\ dir_hist.fd \notin OpenFds

\* an enumeration has returned whose directory descriptor lay between
\* descriptors that the loop closed
C14_Witness ==
    /\ s_pc = "returned"
    /\ dir_hist.fd >= 0
    /\ dir_hist.seen
    /\ \E lo, hi \in close_calls : lo < dir_hist.fd /\ dir_hist.fd < hi

\* a call of mkdir that failed for another reason than EEXIST
MkdirFailed(err) == err # "0" /\ err # "EEXIST"

\* C15: in mkdir_p a mkdir that fails with EEXIST counts as success and the
\* walk goes on with the next segment; the first mkdir that fails for
\* another reason ends the walk: no mkdir follows it, the result is not 0,
\* and the directories made for the earlier segments stay.
C15_ExistsGoesOnOtherFailureStops ==
    /\ Len(mkdir_errs) = Len(mkdir_calls)
    \* no call of mkdir follows a failed one
    /\ \A i \in 1..(Len(mkdir_errs) - 1) : ~MkdirFailed(mkdir_errs[i])
    \* a failed call ends the walk with a result that is not 0
    /\ (mkdir_errs # <<>> /\ MkdirFailed(mkdir_errs[Len(mkdir_errs)])) =>
            /\ mk_pc \in {"free", "done"}
            /\ mk_rc # 0
            /\ mk_pc = "done" => mk_ret # 0
    \* without a failed call every segment is tried, those that exist too
    /\ (mk_pc = "done" /\ path # NullPath /\ path # <<>> /\ mk_ret # -ENOMEM
            /\ \A i \in 1..Len(mkdir_errs) : ~MkdirFailed(mkdir_errs[i])) =>
            /\ mk_ret = 0
            /\ Len(mkdir_calls) = Len(Components(path, <<>>))
    \* nothing is rolled back
    /\ fs00.dir \subseteq fs.dir
    /\ fs.reg = fs00.reg
    /\ \A i \in 1..Len(mkdir_errs) :
            mkdir_errs[i] = "0" => Components(mkdir_calls[i], <<>>) \in fs.dir

\* mkdir_p of a path of three segments has returned after it made the first
\* directory and failed on the second
C15_Witness ==
    /\ mk_pc = "done"
    /\ Len(Components(path, <<>>)) = 3
    /\ Len(mkdir_errs) = 2
    /\ mkdir_errs[1] = "0"
    /\ MkdirFailed(mkdir_errs[2])
    /\ mk_ret # 0
    /\ fs.dir # fs00.dir

\* the prefixes of str that end in a segment that is not empty: those that
\* end in a character other than '/' which '/' or the end of str follows,
\* the shortest first
RECURSIVE SegmentPrefixes(_, _)
SegmentPrefixes(str, i) ==
    IF i > Len(str) THEN <<>>
    ELSE (IF str[i] # "/" /\ (i = Len(str) \/ str[i + 1] = "/")
          THEN <<SubSeq(str, 1, i)>>
          ELSE <<>>) \o SegmentPrefixes(str, i + 1)

IsPrefix(s, t) == Len(s) <= Len(t) /\ SubSeq(t, 1, Len(s)) = s

\* C16: mkdir_p calls mkdir from left to right, once for each prefix of the
\* path that ends in a segment that is not empty, and for nothing else: a
\* leading '/' is part of every prefix and is not made itself, a doubled
\* '/' and a trailing '/' cause no call, and the last call names the full
\* path (as it is written when it does not end in '/').
C16_OneAttemptPerSegmentPrefix ==
    path # NullPath =>
        LET want == SegmentPrefixes(path, 1)
            n == Len(mkdir_calls)
        IN /\ IsPrefix(mkdir_calls, want)
           /\ (mk_pc = "done" /\ mk_ret = 0) => mkdir_calls = want
           /\ \A i \in 1..n :
                /\ Components(mkdir_calls[i], <<>>) # <<>>
                /\ path[1] = "/" => mkdir_calls[i][1] = "/"
           /\ (mk_pc = "done" /\ mk_ret = 0 /\ n > 0) =>
                /\ Components(mkdir_calls[n], <<>>) = Components(path, <<>>)
                /\ path[Len(path)] # "/" => mkdir_calls[n] = path

\* mkdir_p has returned 0 for an absolute path with a doubled '/', after two
\* calls of mkdir
C16_Witness ==
    /\ mk_pc = "done"
    /\ mk_ret = 0
    /\ Len(path) = 5
    /\ path[1] = "/"
    /\ \E i \in 2..4 : path[i] = "/" /\ path[i + 1] = "/"
    /\ Len(mkdir_calls) = 2
    /\ mkdir_errs[2] = "0"

(***************************************************************************)
(* The claims about the loops of ul_copy_file.                             *)
(***************************************************************************)
\* C17: in the fast path of ul_copy_file a sendfile that returns 0 while
\* the counter left, taken from st_size, is still above 0 makes the
\* function return 0 at once, without the buffered path and without
\* another sendfile; when the counter reaches 0 first, sendfile is called
\* again, for at most the drain chunk each time, until it returns 0, and
\* only then 0 is returned.
C17_ZeroTransferEndsFastPath ==
    [][/\ c_pc = "sendfile" =>
            /\ left > 0
            \* a call that moved nothing and did not fail returned 0
            /\ (sent' = sent /\ ~sendfile_failed') =>
                    /\ c_pc' = "done"
                    /\ c_ret' = 0
                    /\ ~simple'
                    /\ left' = left
            /\ sent' > sent =>
                    /\ left' = left - (sent' - sent)
                    /\ c_pc' = IF left' = 0 THEN "drain" ELSE "sendfile"
       /\ c_pc = "drain" =>
            /\ left = 0
            /\ sent' - sent <= SendfileChunk
            /\ sent' > sent => c_pc' = "drain"
            /\ c_pc' = "done" => sent' = sent /\ ~sendfile_failed'
       \* the fast path returns 0 after a call that returned 0 and no other way
       /\ (c_pc \in {"sendfile", "drain"} /\ c_pc' = "done") =>
            /\ c_ret' = 0
            /\ ~simple'
            /\ sent' = sent
            /\ ~sendfile_failed'
            /\ Avail = 0
       /\ c_pc = "done" => c_pc' = "done"
      ]_vars

\* sendfile has moved a part of st_size bytes and then returned 0: the
\* function has returned 0 with the counter above 0
C17_Witness ==
    /\ c_pc = "done"
    /\ c_ret = 0
    /\ HAVE_SENDFILE
    /\ is_reg
    /\ ~simple
    /\ sent > 0
    /\ left > 0

\* C18: when explicit_bzero is available, the buffer of copy_file_simple is
\* erased on every return of the function that follows a read into it, on
\* the return of 0, of -1 (read error) and of -2 (write error) alike: no
\* cell of buf holds a byte of the source when the function has returned.
C18_BufferErasedOnEveryReturn ==
    (c_pc = "done" /\ simple /\ HAVE_EXPLICIT_BZERO) =>
        \A i \in 1..BufSize : buf[i] \notin Bytes

\* the work a call has left: every byte of the source behind the offset is
\* to be taken and to be handed on, every byte read and not yet written is
\* to be handed on
WorkLeft == 2 * Avail + (IF c_pc = "write" THEN nr ELSE 0)

\* the part of the function the call is in: fstat, the sendfile loops, the
\* buffered path, returned
Phase ==
    CASE c_pc = "fstat" -> 3
      [] c_pc \in {"sendfile", "drain"} -> 2
      [] c_pc \in {"read", "write"} -> 1
      [] OTHER -> 0

\* C19: on a source of finitely many bytes ul_copy_file always returns:
\* every turn of the short-write loop, of the size-bounded sendfile loop and
\* of the drain loop leaves strictly less work than it found, whatever byte
\* count >= 0 read, write or sendfile returns, a write that returns 0
\* included.  (A step that does not reduce the work moves the call on to a
\* later part of the function.)
C19_EveryTurnReducesWork ==
    [][\/ Phase' < Phase
       \/ Phase' = Phase /\ WorkLeft' < WorkLeft]_vars

(***************************************************************************)
(* The claim about the two outputs of xmkstemp.                            *)
(***************************************************************************)
\* C20: on every return of xmkstemp the two outputs agree: the result is a
\* descriptor >= 0 exactly when *tmpname is the path of the file that was
\* created, which the descriptor is open on, and on every return of -1, the
\* one after a failed asprintf included, *tmpname has been set to NULL.
C20_OutputsAgree ==
    x_pc = "done" =>
        IF x_ret >= 0
        THEN /\ tmpname \in files
             /\ tmpname \notin files0
             /\ x_ret \in OpenFds
             /\ fdtab[x_ret].file = tmpname
        ELSE x_ret = -1 /\ tmpname = NULL

=============================================================================
